---- MODULE Spec2Model ----
(***************************************************************************)
(* Model of the Feishu customer-intake bot (feishu_bot.py): the /webhook   *)
(* endpoint, the per-user conversation state machine, the regex field      *)
(* extractor, the duplicate checker, the record writer and the Redis       *)
(* backed session store / table-id cache; and of the locator script        *)
(* (main.py).  Spec is the bot serving /webhook; SpecClock the bot with    *)
(* /config as time passes; SpecPair the bot and two people; SpecMain the   *)
(* script; SpecRace the bot with two requests in the handler at once.      *)
(*                                                                         *)
(* Texts are sequences of tokens.  A label token stands for the label      *)
(* followed by a colon (half- or full-width, the class [::] of the        *)
(* patterns), "NL" for a newline, "SP" for a blank, "@" for the mention    *)
(* placeholder "@_user_1" and "a" for any other visible character.         *)
(***************************************************************************)
EXTENDS Integers, Sequences, FiniteSets, TLC

\* -------------------------------------------------------- program constants
MaxRequests == 2         \* the requests one thread of the server takes
TickSeconds == 100       \* the seconds one step of the clock takes
MaxTime == 300           \* no new request is accepted from this time on
SessionTTL == 300        \* set_user_state(..., ttl: int = 300)
TableCacheTTL == 3600    \* redis_client.setex(cache_key, 3600, table_id)
SingleSelectType == 3    \* field["type"] == 3

\* ------------------------------------------------------------------ values
None == "None"                 \* Python None where strings are expected
NoneText == <<"None">>         \* Python None where a text is expected
EmptyText == <<>>              \* the empty string ""

UserIds == {"u1", "u2"}
\* the people who write to the bot, and the user_id the platform knows them by
Senders == {"A", "B"}
UserIdOf(sender) == IF sender = "A" THEN "u1" ELSE "u2"
ChatIds == {"c1", "c2"}
ChatTypes == {"group", "p2p", None}
HeaderTokens == {None, "tok"}            \* X-Lark-Verification-Token
ConfiguredTokens == {"", "tok"}          \* VERIFICATION_TOKEN
Challenges == {"abc", None}
TARGET_TABLE_NAME == "target"
\* the table URLs of the configuration: a direct /base/<app_token> link or a
\* /wiki/<node_token> link, with or without the query parameters
Url(wiki, segment, table, view) ==
    [wiki |-> wiki, segment |-> segment, table |-> table, view |-> view]
DirectUrls == {Url(FALSE, "app", table, None) : table \in {None, "tblU"}}
BaseUrls ==
    {Url(wiki, IF wiki THEN "wikinode" ELSE "app", table, view) :
        wiki \in BOOLEAN, table \in {None, "tblU"}, view \in {None, "vew1"}}

Mention == "@"
\* the intake fields (qudao, laiyuan, dianhua, weixin in the source) and the
\* token of each label with its colon
FieldNames == {"channel", "source", "phone", "wechat"}
LabelOf(f) ==
    CASE f = "channel" -> "CH:" [] f = "source" -> "SRC:"
      [] f = "phone" -> "PH:" [] f = "wechat" -> "WX:"
Labels == {LabelOf(f) : f \in FieldNames}
Alphabet == Labels \cup {"NL", "SP", "a", Mention}
\* The texts of the modelled chat messages: every way of answering the
\* template (each label left out, left blank or filled in, one per line, in
\* the template's order), and texts that are no answer at all.
LineForms == {"absent", "blank", "filled"}
Line(f, form) ==
    CASE form = "absent" -> <<>>
      [] form = "blank"  -> <<LabelOf(f), "NL">>
      [] form = "filled" -> <<LabelOf(f), "SP", "a", "NL">>
TemplateReply(ch, src, ph, wx) ==
    Line("channel", ch) \o Line("source", src) \o Line("phone", ph)
        \o Line("wechat", wx)
TemplateReplies ==
    {TemplateReply(ch, "absent", ph, wx) :
        ch \in LineForms, ph \in LineForms, wx \in LineForms}
    \cup {TemplateReply(f, "filled", f, f) : f \in {"absent", "filled"}}
OtherTexts ==
    { <<"a">>, <<Mention>>, <<"SP", Mention, "SP", "a">>,
      <<Mention, "SP", "PH:", "a">>, <<"PH:", "SP">> }
MessageTexts == TemplateReplies \cup OtherTexts

\* ------------------------------------------------------------ str helpers
IsSpace(t) == t \in {"NL", "SP"}

RECURSIVE lstrip(_)
lstrip(s) == IF s # <<>> /\ IsSpace(Head(s)) THEN lstrip(Tail(s)) ELSE s

RECURSIVE rstrip(_)
rstrip(s) ==
    IF s # <<>> /\ IsSpace(s[Len(s)]) THEN rstrip(SubSeq(s, 1, Len(s) - 1)) ELSE s

\* str.strip()
strip(s) == rstrip(lstrip(s))

\* `sub in text` for a one-token needle
Contains(text, tok) == \E i \in 1..Len(text) : text[i] = tok

Max(S) == CHOOSE x \in S : \A y \in S : y <= x
Min(S) == CHOOSE x \in S : \A y \in S : x <= y

\* the number of leading whitespace tokens of s
RECURSIVE LeadingSpaces(_)
LeadingSpaces(s) ==
    IF s # <<>> /\ IsSpace(Head(s)) THEN 1 + LeadingSpaces(Tail(s)) ELSE 0

\* the longest prefix of s without a newline: what `.+` can consume
RECURSIVE UntilNewline(_)
UntilNewline(s) ==
    IF s = <<>> \/ Head(s) = "NL" THEN <<>> ELSE <<Head(s)>> \o UntilNewline(Tail(s))

\* The match of  \s*(.+)  against `rest`, the text after a label and its
\* colon: \s* is greedy and may cross newlines, then gives blanks back one at
\* a time until `.+` finds a character that is not a newline.  The result is
\* group(1), or NoneText when no split matches.
MatchGroup(rest) ==
    LET n  == LeadingSpaces(rest)
        ks == {k \in 0..n : k + 1 <= Len(rest) /\ rest[k + 1] # "NL"}
    IN  IF ks = {} THEN NoneText
        ELSE UntilNewline(SubSeq(rest, Max(ks) + 1, Len(rest)))

\* re.search(label [::] \s* (.+), text): the leftmost position that matches
re_search(label, text) ==
    LET hits == {i \in 1..Len(text) :
                    /\ text[i] = label
                    /\ MatchGroup(SubSeq(text, i + 1, Len(text))) # NoneText}
    IN  IF hits = {} THEN NoneText
        ELSE MatchGroup(SubSeq(text, Min(hits) + 1, Len(text)))

\* parse_customer_info: a dict holding the labels found, values stripped
parse_customer_info(text) ==
    [f \in {g \in FieldNames : re_search(LabelOf(g), text) # NoneText}
        |-> strip(re_search(LabelOf(f), text))]

\* dict.get(key, default)
DictGet(d, k, default) == IF k \in DOMAIN d THEN d[k] ELSE default

\* Python truthiness of an optional text
Truthy(v) == v # NoneText /\ v # EmptyText
\* ------------------------------------------------------------------- state
VARIABLES
    redis_client,        \* TRUE: connected at startup; FALSE: redis_client = None
    VERIFICATION_TOKEN,  \* the configured shared secret, "" when unset
    BASE_URL,            \* the configured table URL
    user_state,          \* Redis keys user_state:<user_id> -> [value, expires_at]
    target_table_id,     \* Redis key target_table_id: <<>> or <<[value, expires_at]>>
    now,                 \* the clock, in seconds
    request,             \* the POST being served: <<>> or <<[hdr, body]>>
    last,                \* the exchange just answered: request, response, calls
    tenant_access_token, \* main.py: <<>> or <<the pair get_tenant_access_token gave>>
    bitable_params,      \* main.py: <<>> or <<the outcome of parse_base_url>>
    threads              \* the server's threads: where each one is in its request

vars == <<redis_client, VERIFICATION_TOKEN, BASE_URL, user_state,
          target_table_id, now, request, last, tenant_access_token,
          bitable_params, threads>>

\* what is fixed once the process runs
settings == <<redis_client, VERIFICATION_TOKEN, BASE_URL, tenant_access_token,
              bitable_params>>

\* what a request handled in one piece never writes
config == <<settings, threads>>

\* parse_base_url of the bot: the last path segment and the query parameters
parse_base_url ==
    [app_token |-> BASE_URL.segment, table_id |-> BASE_URL.table,
     view_id |-> BASE_URL.view]
APP_TOKEN == parse_base_url.app_token

\* ------------------------------------------------------------ session store
\* get_user_state: <<>> for None, <<state>> for a stored state
get_user_state(user_id) ==
    IF redis_client /\ user_id \in DOMAIN user_state
    THEN <<user_state[user_id].value>>
    ELSE <<>>

\* mutant: the session is stored with the table cache's expiry
set_user_state_cache_ttl(user_id, state, ttl) ==
    IF redis_client
    THEN [k \in DOMAIN user_state \cup {user_id} |->
            IF k = user_id
            THEN [value |-> state, expires_at |-> now + TableCacheTTL]
            ELSE user_state[k]]
    ELSE user_state

\* mutant: the session is stored without looking at redis_client
set_user_state_unguarded(user_id, state, ttl) ==
    [k \in DOMAIN user_state \cup {user_id} |->
        IF k = user_id THEN [value |-> state, expires_at |-> now + ttl]
        ELSE user_state[k]]

\* set_user_state: the store after setex(key, ttl, state)
set_user_state(user_id, state, ttl) ==
    IF redis_client
    THEN [k \in DOMAIN user_state \cup {user_id} |->
            IF k = user_id THEN [value |-> state, expires_at |-> now + ttl]
            ELSE user_state[k]]
    ELSE user_state

\* delete_user_state: the store after delete(key)
delete_user_state(user_id) ==
    IF redis_client
    THEN [k \in DOMAIN user_state \ {user_id} |-> user_state[k]]
    ELSE user_state

\* the state written by a trigger
WaitingInfo(chat_id) ==
    [chat_id |-> chat_id, step |-> "waiting_info", created_at |-> now]
\* ------------------------------------------------- remote API: responses
\* what the tabular-store and chat APIs may answer: a success, a non-success
\* status ("fail") or a transport exception ("exc")
Table(name, id) == [name |-> name, table_id |-> id]
TableLists ==
    { <<Table("other", "tblX")>>,
      <<Table("other", "tblX"), Table(TARGET_TABLE_NAME, "tblA")>> }
Failures == {[kind |-> "fail", items |-> <<>>], [kind |-> "exc", items |-> <<>>]}
NoCall == [kind |-> "nocall", items |-> <<>>]
ListResponses == [kind : {"ok"}, items : TableLists] \cup Failures
SearchResponses ==
    [kind : {"ok"}, items : {<<>>, <<"rec1">>, <<"rec2", "rec1">>}] \cup Failures

Option(name, id) == [name |-> name, id |-> id]
Field(name, type, options) ==
    [field_name |-> name, type |-> type, property |-> [options |-> options]]
\* channel is a single-select (type 3), source a multi-select (type 4)
Schema ==
    << Field("channel", SingleSelectType, <<Option(<<"a">>, <<"opt_3">>)>>),
       Field("source", 4, <<Option(<<"a">>, <<"opt_9">>)>>),
       Field("phone", 1, <<>>) >>
FieldResponses ==
    {[kind |-> "ok", items |-> Schema], [kind |-> "fail", items |-> <<>>]}
CreateResponses == {[kind |-> "ok", items |-> <<>>]} \cup Failures
SendResponses ==
    {[kind |-> "ok", items |-> <<>>], [kind |-> "fail", items |-> <<>>]}

\* ----------------------------------------------------------- table locator
\* the first table of the list named TARGET_TABLE_NAME, as the for loop finds it
FirstNamed(tables, name) ==
    LET hits == {i \in 1..Len(tables) : tables[i].name = name}
    IN  IF hits = {} THEN <<>> ELSE <<tables[Min(hits)].table_id>>

CacheHit == redis_client /\ target_table_id # <<>>

\* the list-tables call, what it was answered and the table id found in it
ListCall(resp) ==
    [app_token |-> APP_TOKEN, answer |-> resp.kind,
     named |-> IF resp.kind = "ok"
               THEN FirstNamed(resp.items, TARGET_TABLE_NAME) ELSE <<>>]

\* get_target_table_id with `resp` the answer of the list-tables call (NoCall
\* on a cache hit): whether it raised, the id returned, the cache afterwards
\* and the list-tables calls issued
get_target_table_id(resp) ==
    IF CacheHit
    THEN [raised |-> FALSE, table_id |-> target_table_id[1].value,
          cache |-> target_table_id, listed |-> <<>>]
    ELSE LET found == IF resp.kind = "ok"
                      THEN FirstNamed(resp.items, TARGET_TABLE_NAME) ELSE <<>>
         IN  IF found = <<>>
             THEN [raised |-> TRUE, table_id |-> None,
                   cache |-> target_table_id, listed |-> <<ListCall(resp)>>]
             ELSE [raised |-> FALSE, table_id |-> found[1],
                   cache |-> IF redis_client
                             THEN <<[value |-> found[1],
                                     expires_at |-> now + TableCacheTTL]>>
                             ELSE target_table_id,
                   listed |-> <<ListCall(resp)>>]

\* --------------------------------------------------------- duplicate checker
\* the conditions of the OR filter
Conditions(phone, wechat) ==
    (IF Truthy(phone) THEN <<[field_name |-> "phone", value |-> phone]>> ELSE <<>>)
    \o (IF Truthy(wechat) THEN <<[field_name |-> "wechat", value |-> wechat]>> ELSE <<>>)

\* mutant: a search that failed counts as a match
check_duplicate_record_fails_closed(app_token, table_id, phone, wechat, resp) ==
    LET conditions == Conditions(phone, wechat)
        search == [app_token |-> app_token, table_id |-> table_id,
                   conditions |-> conditions, answer |-> resp.kind]
    IN  IF conditions = <<>>
        THEN [is_duplicate |-> FALSE, record_id |-> None, searched |-> <<>>]
        ELSE IF resp.kind # "ok" \/ Len(resp.items) > 0
        THEN [is_duplicate |-> TRUE,
              record_id |-> IF resp.kind = "ok" THEN resp.items[1] ELSE None,
              searched |-> <<search>>]
        ELSE [is_duplicate |-> FALSE, record_id |-> None, searched |-> <<search>>]

\* check_duplicate_record with `resp` the answer of the search call: the pair
\* returned and the search requests issued
check_duplicate_record(app_token, table_id, phone, wechat, resp) ==
    LET conditions == Conditions(phone, wechat)
        search == [app_token |-> app_token, table_id |-> table_id,
                   conditions |-> conditions, answer |-> resp.kind]
    IN  IF conditions = <<>>
        THEN [is_duplicate |-> FALSE, record_id |-> None, searched |-> <<>>]
        ELSE IF resp.kind = "ok" /\ Len(resp.items) > 0
        THEN [is_duplicate |-> TRUE, record_id |-> resp.items[1],
              searched |-> <<search>>]
        ELSE [is_duplicate |-> FALSE, record_id |-> None, searched |-> <<search>>]

\* ------------------------------------------------------------- record writer
\* get_table_fields: [] on any failure
get_table_fields(resp) == IF resp.kind = "ok" THEN resp.items ELSE <<>>

\* mutant: the type of the field is not looked at
get_single_select_option_id_any_type(fields, field_name, option_text) ==
    LET Matches(i) == {j \in 1..Len(fields[i].property.options) :
                          fields[i].property.options[j].name = option_text}
        hits == {i \in 1..Len(fields) :
                    /\ fields[i].field_name = field_name
                    /\ Matches(i) # {}}
    IN  IF hits = {} THEN NoneText
        ELSE fields[Min(hits)].property.options[Min(Matches(Min(hits)))].id

\* get_single_select_option_id: the first matching option of the first
\* matching single-select field, NoneText when there is none
get_single_select_option_id(fields, field_name, option_text) ==
    LET Matches(i) == {j \in 1..Len(fields[i].property.options) :
                          fields[i].property.options[j].name = option_text}
        hits == {i \in 1..Len(fields) :
                    /\ fields[i].field_name = field_name
                    /\ fields[i].type = SingleSelectType
                    /\ Matches(i) # {}}
    IN  IF hits = {} THEN NoneText
        ELSE fields[Min(hits)].property.options[Min(Matches(Min(hits)))].id

Today == <<"today">>     \* datetime.now().strftime("%Y-%m-%d")

\* the `fields` dict create_customer_record assembles
RecordFields(table_fields, fields_data) ==
    LET selects == {f \in {"channel", "source"} : f \in DOMAIN fields_data}
        others  == {f \in DOMAIN fields_data \ {"channel", "source"} :
                        Truthy(fields_data[f])}
        Select(f) ==
            LET option_id ==
                    get_single_select_option_id(table_fields, f, fields_data[f])
            IN  IF Truthy(option_id) THEN option_id ELSE fields_data[f]
    IN  [f \in selects \cup others \cup {"entry_date"} |->
            IF f \in selects THEN Select(f)
            ELSE IF f \in others THEN fields_data[f]
            ELSE Today]

\* create_customer_record with the answers of the list-fields and create
\* calls: the flag returned, the list-fields call with the schema it gave and
\* the create request issued
create_customer_record(app_token, table_id, fields_data, fresp, cresp) ==
    LET fields == RecordFields(get_table_fields(fresp), fields_data)
    IN  [success |-> cresp.kind = "ok",
         fetched |-> <<[app_token |-> app_token, table_id |-> table_id,
                        answer |-> fresp.kind,
                        fields |-> get_table_fields(fresp)]>>,
         created |-> <<[app_token |-> app_token, table_id |-> table_id,
                        fields |-> fields]>>]
\* ---------------------------------------------------------------- messages
Template == [text |-> "template", cites |-> None]
ValidationFailed == [text |-> "phone_or_wechat_required", cites |-> None]
DuplicateOf(record_id) == [text |-> "duplicate_of", cites |-> record_id]
Recorded == [text |-> "recorded", cites |-> None]
RecordFailed == [text |-> "record_failed", cites |-> None]
FormatError == [text |-> "format_error", cites |-> None]

\* send_message: the flag it returns; no failure leaves it
send_message(chat_id, content, resp) == resp.kind = "ok"

\* the create-message request send_message issues
SendRequest(chat_id, content, resp) ==
    [receive_id |-> chat_id, content |-> content,
     delivered |-> send_message(chat_id, content, resp)]

\* ---------------------------------------------------------------- requests
NoEvent == [type |-> None, chat_type |-> None, chat_id |-> None,
            sender |-> None, user_id |-> None, text |-> <<>>]
\* a message event: sender_id.user_id is the sender's user id, or is missing
MessageEvents ==
    {e \in [type : {"im.message.receive_v1"}, chat_type : ChatTypes,
            chat_id : ChatIds, sender : Senders, user_id : UserIds \cup {None},
            text : MessageTexts] :
        e.user_id \in {UserIdOf(e.sender), None}}
OtherEvents == {[NoEvent EXCEPT !.type = "other"]}

\* the body of a POST: json is "malformed" when get_json() raises, "null" when
\* it yields no object, "object" otherwise
Bodies ==
    [json : {"malformed", "null"}, type : {None}, challenge : {None},
     event : {NoEvent}]
    \cup [json : {"object"}, type : {"url_verification"}, challenge : Challenges,
          event : {NoEvent}]
    \cup [json : {"object"}, type : {"event_callback"}, challenge : {None},
          event : MessageEvents \cup OtherEvents]

\* the outbound calls of one request, in order of issue per kind: messages
\* sent, list-tables calls, search calls with the checker's verdicts, record
\* writer invocations with the flags returned, list-fields calls,
\* create-record calls
NoEffects == [sent |-> <<>>, listed |-> <<>>, searched |-> <<>>,
              checked |-> <<>>, wrote |-> <<>>, written |-> <<>>,
              fetched |-> <<>>, created |-> <<>>]

Msg(m) == [key |-> "msg", val |-> m]
Error == [key |-> "error", val |-> "exception"]

\* the exchange recorded in `last`
Exchange(route, hdr, body, status, reply, dispatched, eff, before) ==
    [route |-> route, hdr |-> hdr, body |-> body, status |-> status,
     reply |-> reply, dispatched |-> dispatched, before |-> before,
     sent |-> eff.sent, listed |-> eff.listed, searched |-> eff.searched,
     checked |-> eff.checked, wrote |-> eff.wrote, written |-> eff.written,
     fetched |-> eff.fetched, created |-> eff.created]

\* the handler returns: the stores and the exchange it leaves
Return(hdr, body, status, reply, dispatched, store, cache, eff) ==
    /\ user_state' = store
    /\ target_table_id' = cache
    /\ last' = Exchange("/webhook", hdr, body, status, reply, dispatched, eff,
                        [sessions |-> user_state, cache |-> target_table_id])
    /\ request' = <<>>
    /\ UNCHANGED <<config, now>>
\* ------------------------------------------------- conversation state machine
\* what one run of handle_message_event leaves: the HTTP answer, the stores
\* and the outbound calls
Outcome(status, reply, store, cache, eff) ==
    [status |-> status, reply |-> reply, store |-> store, cache |-> cache,
     eff |-> eff]

\* mutant: every group message counts as addressed to the bot
IsTrigger_any_group(chat_type, text) == chat_type = "group"

IsTrigger(chat_type, text) == chat_type = "group" /\ Contains(text, Mention)

\* mutant: a session that is open is left as it is
OnTrigger_keeps_open_session(user_id, chat_id, sresp) ==
    Outcome(200, Msg("Message processed"),
            IF user_id \in DOMAIN user_state THEN user_state
            ELSE set_user_state(user_id, WaitingInfo(chat_id), SessionTTL),
            target_table_id,
            [NoEffects EXCEPT !.sent = <<SendRequest(chat_id, Template, sresp)>>])

\* a group message that mentions the bot: send the template, open a session
OnTrigger(user_id, chat_id, sresp) ==
    Outcome(200, Msg("Message processed"),
            set_user_state(user_id, WaitingInfo(chat_id), SessionTTL),
            target_table_id,
            [NoEffects EXCEPT !.sent = <<SendRequest(chat_id, Template, sresp)>>])

\* mutant: a validation failure closes the session
OnValidationFailed_closes_session(user_id, state, sresp) ==
    Outcome(200, Msg("Validation failed"), delete_user_state(user_id),
            target_table_id,
            [NoEffects EXCEPT
                !.sent = <<SendRequest(state.chat_id, ValidationFailed, sresp)>>])

\* neither phone nor wechat in the parsed reply
OnValidationFailed(user_id, state, sresp) ==
    Outcome(200, Msg("Validation failed"), user_state, target_table_id,
            [NoEffects EXCEPT
                !.sent = <<SendRequest(state.chat_id, ValidationFailed, sresp)>>])

\* mutant: a reply that cannot be parsed closes the session
OnFormatError_closes_session(user_id, state, sresp) ==
    Outcome(200, Msg("Message processed"), delete_user_state(user_id),
            target_table_id,
            [NoEffects EXCEPT
                !.sent = <<SendRequest(state.chat_id, FormatError, sresp)>>])

\* mutant: a re-prompt starts the session's time anew
OnFormatError_renews_session(user_id, state, sresp) ==
    Outcome(200, Msg("Message processed"),
            set_user_state(user_id, state, SessionTTL), target_table_id,
            [NoEffects EXCEPT
                !.sent = <<SendRequest(state.chat_id, FormatError, sresp)>>])

\* nothing parsed from the reply
OnFormatError(user_id, state, sresp) ==
    Outcome(200, Msg("Message processed"), user_state, target_table_id,
            [NoEffects EXCEPT
                !.sent = <<SendRequest(state.chat_id, FormatError, sresp)>>])

\* get_target_table_id raised: the except clause of the handler answers 500
OnLocatorRaised(t) ==
    Outcome(500, Error, user_state, t.cache, [NoEffects EXCEPT !.listed = t.listed])

\* mutant: a duplicate is reported and the session stays open
OnDuplicate_keeps_session(user_id, state, t, d, sresp) ==
    Outcome(200, Msg("Duplicate found"), user_state, t.cache,
            [NoEffects EXCEPT
                !.listed = t.listed,
                !.searched = d.searched,
                !.checked = <<[is_duplicate |-> d.is_duplicate,
                               record_id |-> d.record_id]>>,
                !.sent = <<SendRequest(state.chat_id, DuplicateOf(d.record_id),
                                       sresp)>>])

\* the duplicate checker reported a match
OnDuplicate(user_id, state, t, d, sresp) ==
    Outcome(200, Msg("Duplicate found"), delete_user_state(user_id), t.cache,
            [NoEffects EXCEPT
                !.listed = t.listed,
                !.searched = d.searched,
                !.checked = <<[is_duplicate |-> d.is_duplicate,
                               record_id |-> d.record_id]>>,
                !.sent = <<SendRequest(state.chat_id, DuplicateOf(d.record_id),
                                       sresp)>>])

\* the fields_data the handler hands to the record writer
FieldsData(customer_info) ==
    [f \in FieldNames |->
        IF f \in {"channel", "source"} THEN DictGet(customer_info, f, EmptyText)
        ELSE DictGet(customer_info, f, NoneText)]

\* mutant: the session is closed only when the write succeeded
OnNoDuplicate_keeps_on_failure(user_id, state, t, d, customer_info, fresp, cresp, sresp) ==
    LET fields_data == FieldsData(customer_info)
        w == create_customer_record(APP_TOKEN, t.table_id, fields_data, fresp, cresp)
    IN  Outcome(200, Msg("Message processed"),
                IF w.success THEN delete_user_state(user_id) ELSE user_state,
                t.cache,
                [listed |-> t.listed, searched |-> d.searched,
                 checked |-> <<[is_duplicate |-> d.is_duplicate,
                                record_id |-> d.record_id]>>,
                 wrote |-> <<fields_data>>, written |-> <<w.success>>,
                 fetched |-> w.fetched, created |-> w.created,
                 sent |-> <<SendRequest(state.chat_id,
                                        IF w.success THEN Recorded ELSE RecordFailed,
                                        sresp)>>])

\* no duplicate: write the record, report, close the session
OnNoDuplicate(user_id, state, t, d, customer_info, fresp, cresp, sresp) ==
    LET fields_data == FieldsData(customer_info)
        w == create_customer_record(APP_TOKEN, t.table_id, fields_data, fresp, cresp)
    IN  Outcome(200, Msg("Message processed"), delete_user_state(user_id), t.cache,
                [listed |-> t.listed, searched |-> d.searched,
                 checked |-> <<[is_duplicate |-> d.is_duplicate,
                                record_id |-> d.record_id]>>,
                 wrote |-> <<fields_data>>, written |-> <<w.success>>,
                 fetched |-> w.fetched, created |-> w.created,
                 sent |-> <<SendRequest(state.chat_id,
                                        IF w.success THEN Recorded ELSE RecordFailed,
                                        sresp)>>])

\* a message that is neither a trigger nor an awaited reply
OnIgnored == Outcome(200, Msg("Message processed"), user_state, target_table_id,
                     NoEffects)

Returns(hdr, body, o) ==
    Return(hdr, body, o.status, o.reply, TRUE, o.store, o.cache, o.eff)

\* mutant: the presence check is skipped
MissingContact_never(phone, wechat) == FALSE

\* `if not phone and not wechat`
MissingContact(phone, wechat) == ~Truthy(phone) /\ ~Truthy(wechat)

\* a reply with a phone or a wechat: locate the table, check, write
OnContact(hdr, body, user_id, state, customer_info) ==
    LET phone  == DictGet(customer_info, "phone", NoneText)
        wechat == DictGet(customer_info, "wechat", NoneText)
    IN  \E lresp \in (IF CacheHit THEN {NoCall} ELSE ListResponses) :
          LET t == get_target_table_id(lresp)
          IN  IF t.raised
              THEN Returns(hdr, body, OnLocatorRaised(t))
              ELSE \E qresp \in SearchResponses :
                     LET d == check_duplicate_record(APP_TOKEN, t.table_id,
                                                     phone, wechat, qresp)
                     IN  IF d.is_duplicate
                         THEN \E sresp \in SendResponses :
                                Returns(hdr, body,
                                        OnDuplicate(user_id, state, t, d, sresp))
                         ELSE \E fresp \in FieldResponses, cresp \in CreateResponses,
                                 sresp \in SendResponses :
                                Returns(hdr, body,
                                        OnNoDuplicate(user_id, state, t, d,
                                                      customer_info, fresp, cresp,
                                                      sresp))

\* handle_message_event
handle_message_event(hdr, body) ==
    LET event   == body.event
        text    == strip(event.text)
        user_id == event.user_id
        found   == get_user_state(user_id)
    IN  IF IsTrigger(event.chat_type, text)
        THEN \E sresp \in SendResponses :
               Returns(hdr, body, OnTrigger(user_id, event.chat_id, sresp))
        ELSE IF event.chat_type = "p2p" /\ found # <<>>
                /\ found[1].step = "waiting_info"
        THEN LET customer_info == parse_customer_info(text)
                 phone  == DictGet(customer_info, "phone", NoneText)
                 wechat == DictGet(customer_info, "wechat", NoneText)
             IN  IF DOMAIN customer_info = {}
                 THEN \E sresp \in SendResponses :
                        Returns(hdr, body, OnFormatError(user_id, found[1], sresp))
                 ELSE IF MissingContact(phone, wechat)
                 THEN \E sresp \in SendResponses :
                        Returns(hdr, body, OnValidationFailed(user_id, found[1], sresp))
                 ELSE OnContact(hdr, body, user_id, found[1], customer_info)
        ELSE Returns(hdr, body, OnIgnored)

\* --------------------------------------------------------------- POST /webhook
\* mutant: the header is compared even when no token is configured
TokenRejected_even_unset(hdr) == hdr # VERIFICATION_TOKEN

\* mutant: a request without the header is let through
TokenRejected_only_if_present(hdr) ==
    VERIFICATION_TOKEN # "" /\ hdr # None /\ hdr # VERIFICATION_TOKEN

TokenRejected(hdr) == VERIFICATION_TOKEN # "" /\ hdr # VERIFICATION_TOKEN

webhook ==
    /\ request # <<>>
    /\ LET hdr  == request[1].hdr
           body == request[1].body
       IN  IF body.json = "malformed"
           THEN Return(hdr, body, 500, Error, FALSE, user_state, target_table_id,
                       NoEffects)
           ELSE IF TokenRejected(hdr)
           THEN Return(hdr, body, 403, [key |-> "error", val |-> "Invalid token"],
                       FALSE, user_state, target_table_id, NoEffects)
           ELSE IF body.json = "null"
           THEN Return(hdr, body, 500, Error, FALSE, user_state, target_table_id,
                       NoEffects)
           ELSE IF body.type = "url_verification"
           THEN Return(hdr, body, 200,
                       [key |-> "challenge", val |-> body.challenge],
                       FALSE, user_state, target_table_id, NoEffects)
           ELSE IF body.event.type = "im.message.receive_v1"
           THEN handle_message_event(hdr, body)
           ELSE Return(hdr, body, 200, Msg("Event received"), FALSE, user_state,
                       target_table_id, NoEffects)

\* ------------------------------------------------------------------ clients
NoBody == [json |-> "null", type |-> None, challenge |-> None, event |-> NoEvent]
NoExchange ==
    Exchange("none", None, NoBody, 0, Msg("none"), FALSE, NoEffects,
             [sessions |-> <<>>, cache |-> <<>>])

\* a client posts to /webhook
Post ==
    /\ request = <<>>
    /\ last = NoExchange
    /\ \E hdr \in HeaderTokens, body \in Bodies :
          request' = <<[hdr |-> hdr, body |-> body]>>
    /\ UNCHANGED <<config, user_state, target_table_id, now, last>>

\* the answer leaves the server
Respond ==
    /\ last # NoExchange
    /\ last' = NoExchange
    /\ UNCHANGED <<config, user_state, target_table_id, now, request>>

\* a thread of the server: the request it serves, where it is in the handler
\* (pc), the handler's local variables (state: user_state of line 451;
\* table_id with missed: the id get_target_table_id found and whether it had to
\* list the tables for it), the requests it has taken and the sessions, by
\* created_at, it has issued a create-record call for
ThreadIds == {1, 2}
IdleThread ==
    [pc |-> "idle", route |-> "none", event |-> NoEvent, state |-> <<>>,
     table_id |-> None, missed |-> FALSE, status |-> 0, served |-> 0,
     created |-> <<>>]
NoThreads == [t \in ThreadIds |-> IdleThread]

\* ----------------------------------------------------------------------- spec
Init ==
    /\ redis_client \in BOOLEAN
    /\ VERIFICATION_TOKEN \in ConfiguredTokens
    /\ BASE_URL = Url(FALSE, "app", None, None)
    /\ tenant_access_token = <<>>
    /\ bitable_params = <<>>
    /\ user_state = [k \in {} |-> 0]
    /\ target_table_id = <<>>
    /\ now = 0
    /\ request = <<>>
    /\ last = NoExchange
    /\ threads = NoThreads

Next == Post \/ webhook \/ Respond

Spec == Init /\ [][Next]_vars

\* ------------------------------------------------- the bot as time passes
\* GET /config: the configuration, with the table id resolved on the spot.
\* An exception of get_target_table_id leaves the view and is answered 500.
show_config ==
    /\ request = <<>>
    /\ last = NoExchange
    /\ now < MaxTime
    /\ \E lresp \in (IF CacheHit THEN {NoCall} ELSE ListResponses) :
          LET t == IF parse_base_url.app_token # ""
                   THEN get_target_table_id(lresp)
                   ELSE [raised |-> FALSE, table_id |-> None,
                         cache |-> target_table_id, listed |-> <<>>]
          IN  /\ target_table_id' = t.cache
              /\ last' = Exchange("/config", None, NoBody,
                                  IF t.raised THEN 500 ELSE 200,
                                  IF t.raised THEN Error
                                  ELSE [key |-> "table_id", val |-> t.table_id],
                                  FALSE,
                                  [NoEffects EXCEPT !.listed = t.listed],
                                  [sessions |-> user_state,
                                   cache |-> target_table_id])
    /\ UNCHANGED <<config, user_state, now, request>>

\* Redis expiry: a key set with setex is gone once its seconds have passed
Expired(entry, time) == entry.expires_at <= time

\* the clock advances; the keys whose time has come disappear
Tick ==
    /\ now < MaxTime \/ DOMAIN user_state # {}
    /\ now' = now + TickSeconds
    /\ user_state' =
          [k \in {j \in DOMAIN user_state : ~Expired(user_state[j], now')}
              |-> user_state[k]]
    /\ target_table_id' =
          IF target_table_id # <<>> /\ Expired(target_table_id[1], now')
          THEN <<>> ELSE target_table_id
    /\ UNCHANGED <<config, request, last>>

\* the chat messages of the timed runs: a trigger, small talk, a reply
\* without contact, a reply with a phone, a reply with the phone left blank
ClockTexts ==
    { <<Mention>>, <<"a">>, TemplateReply("filled", "absent", "absent", "absent"),
      TemplateReply("absent", "absent", "filled", "absent"),
      TemplateReply("absent", "absent", "blank", "filled") }
\* the bot is addressed in the group c1 and, by A, in a second group c2; the
\* chat id of a direct message is never read by the handler
ClockEvents ==
    {e \in MessageEvents :
        /\ e.text \in ClockTexts
        /\ e.chat_type \in {"group", "p2p"}
        /\ e.chat_id = "c1" => e.chat_type = "group"
        /\ (e.chat_id = "c2" /\ e.chat_type = "group")
              => (e.sender = "A" /\ e.text = <<Mention>>)
        /\ e.user_id = (IF e.sender = "A" THEN UserIdOf("A") ELSE None)}

PostChat ==
    /\ request = <<>>
    /\ last = NoExchange
    /\ now < MaxTime
    /\ \E event \in ClockEvents :
          request' = <<[hdr |-> None,
                       body |-> [json |-> "object", type |-> "event_callback",
                                 challenge |-> None, event |-> event]]>>
    /\ UNCHANGED <<config, user_state, target_table_id, now, last>>

InitClock ==
    /\ redis_client \in BOOLEAN
    /\ VERIFICATION_TOKEN = ""
    /\ BASE_URL \in DirectUrls
    /\ tenant_access_token = <<>>
    /\ bitable_params = <<>>
    /\ user_state = [k \in {} |-> 0]
    /\ target_table_id = <<>>
    /\ now = 0
    /\ request = <<>>
    /\ last = NoExchange
    /\ threads = NoThreads

NextClock == PostChat \/ webhook \/ Respond \/ show_config \/ Tick

\* time does not stop
SpecClock == InitClock /\ [][NextClock]_vars /\ WF_vars(Tick)
\* ------------------------------------------------- two people and the bot
\* B only ever addresses the bot in the group, A only ever writes to it
\* directly: every session there is was opened by B
PairEvents ==
    {e \in MessageEvents :
        \/ /\ e.sender = "B" /\ e.chat_type = "group" /\ e.chat_id = "c1"
           /\ e.text = <<Mention>>
        \/ /\ e.sender = "A" /\ e.chat_type = "p2p" /\ e.chat_id = "c2"
           /\ e.text \in ClockTexts \ {<<Mention>>}}

PostPair ==
    /\ request = <<>>
    /\ last = NoExchange
    /\ \E hdr \in HeaderTokens, event \in PairEvents :
          request' = <<[hdr |-> hdr,
                       body |-> [json |-> "object", type |-> "event_callback",
                                 challenge |-> None, event |-> event]]>>
    /\ UNCHANGED <<config, user_state, target_table_id, now, last>>

NextPair == PostPair \/ webhook \/ Respond

SpecPair == Init /\ [][NextPair]_vars

\* ------------------------------------------------- main.py, the locator script
\* what the auth endpoint, the wiki node lookup and the list-tables call of
\* the script may answer.  A node may come with an object token, without the
\* key (<<>>), with a null or with an empty one.
TokenResponses ==
    {[kind |-> "ok", items |-> <<"t-1">>]} \cup Failures
Node(obj_token) == [obj_token |-> obj_token]
NodeResponses ==
    {[kind |-> "ok", items |-> <<Node(t)>>] : t \in {<<"bascn">>, <<>>, <<None>>, <<"">>}}
    \cup {[kind |-> "ok", items |-> <<>>]} \cup Failures
MainListResponses ==
    ListResponses
    \cup [kind : {"ok"},
          items : {<<>>, <<Table(TARGET_TABLE_NAME, "tblA")>>,
                   <<Table(TARGET_TABLE_NAME, "tblA"), Table("other", "tblX")>>}]

\* get_tenant_access_token: the pair (access_token, error)
get_tenant_access_token(resp) ==
    IF resp.kind = "ok" THEN [token |-> resp.items[1], err |-> FALSE]
    ELSE [token |-> "", err |-> TRUE]

\* get_wiki_node_info: the node, or an exception
get_wiki_node_info(resp) ==
    IF resp.kind = "ok" /\ resp.items # <<>>
    THEN [raised |-> FALSE, node_info |-> resp.items[1]]
    ELSE [raised |-> TRUE, node_info |-> Node(<<>>)]

\* list_bitable_tables: the tables, or an exception
list_bitable_tables(resp) ==
    IF resp.kind = "ok" THEN [raised |-> FALSE, tables |-> resp.items]
    ELSE [raised |-> TRUE, tables |-> <<>>]

\* the outcome of parse_base_url of main.py: the triple or an exception, with
\* the answers of the node lookup and of the list-tables call it made
Located(raised, app_token, table_id, view_id, nresp, lresp) ==
    [raised |-> raised, app_token |-> app_token, table_id |-> table_id,
     view_id |-> view_id, node |-> nresp, list |-> lresp]

\* parse_base_url of main.py; the table name it looks for is the default of
\* TARGET_TABLE_NAME, written out in the script
main_parse_base_url(url, nresp, lresp) ==
    LET n == get_wiki_node_info(nresp)
        app_token ==
            IF ~url.wiki THEN url.segment
            ELSE IF n.node_info.obj_token = <<>> THEN url.segment
            ELSE n.node_info.obj_token[1]
        l == list_bitable_tables(lresp)
        found == FirstNamed(l.tables, TARGET_TABLE_NAME)
    IN  IF url.wiki /\ n.raised
        THEN Located(TRUE, None, None, None, nresp, NoCall)
        ELSE IF url.table # None
        THEN Located(FALSE, app_token, url.table, url.view, nresp, NoCall)
        ELSE IF l.raised \/ found = <<>>
        THEN Located(TRUE, None, None, None, nresp, lresp)
        ELSE Located(FALSE, app_token, found[1], url.view, nresp, lresp)

\* the script asks for its token, and exits if it gets none
GetToken ==
    /\ tenant_access_token = <<>>
    /\ \E resp \in TokenResponses :
          tenant_access_token' = <<get_tenant_access_token(resp)>>
    /\ UNCHANGED <<redis_client, VERIFICATION_TOKEN, BASE_URL, user_state,
                   target_table_id, now, request, last, bitable_params, threads>>

\* the script resolves the table URL
ParseUrl ==
    /\ tenant_access_token # <<>>
    /\ ~tenant_access_token[1].err
    /\ bitable_params = <<>>
    /\ \E nresp \in (IF BASE_URL.wiki THEN NodeResponses ELSE {NoCall}) :
          \E lresp \in (IF \/ BASE_URL.table # None
                           \/ BASE_URL.wiki /\ get_wiki_node_info(nresp).raised
                        THEN {NoCall} ELSE MainListResponses) :
             bitable_params' = <<main_parse_base_url(BASE_URL, nresp, lresp)>>
    /\ UNCHANGED <<redis_client, VERIFICATION_TOKEN, BASE_URL, user_state,
                   target_table_id, now, request, last, tenant_access_token,
                   threads>>

InitMain ==
    /\ redis_client = FALSE
    /\ VERIFICATION_TOKEN = ""
    /\ BASE_URL \in BaseUrls
    /\ tenant_access_token = <<>>
    /\ bitable_params = <<>>
    /\ user_state = [k \in {} |-> 0]
    /\ target_table_id = <<>>
    /\ now = 0
    /\ request = <<>>
    /\ last = NoExchange
    /\ threads = NoThreads

NextMain == GetToken \/ ParseUrl

SpecMain == InitMain /\ [][NextMain]_vars

\* ------------------------------------------------- two requests at a time
\* The server handles each request in a thread of its own, so two handlers may
\* be anywhere in their code at once.  A step below is one access to Redis or
\* one call of the tabular store, with the code around it that touches
\* nothing shared; the messages sent are not kept here.
RaceEvents ==
    {e \in ClockEvents :
        /\ e.sender = "A"
        /\ e.chat_type = "group" => e.text = <<Mention>>}

With(t, r) == [threads EXCEPT ![t] = r]

\* mutant: the id found is returned and never cached
setex_target_table_id_skipped(table_id) == target_table_id

\* redis_client.setex(cache_key, 3600, table_id), under `if redis_client`
setex_target_table_id(table_id) ==
    IF redis_client
    THEN <<[value |-> table_id, expires_at |-> now + TableCacheTTL]>>
    ELSE target_table_id

\* where a thread goes on once get_target_table_id has returned
Returning(r) ==
    IF r.route = "/config" THEN [r EXCEPT !.pc = "done", !.status = 200]
    ELSE [r EXCEPT !.pc = "search"]

\* a thread takes a request: GET /config or a message event on POST /webhook
Accept(t) ==
    /\ threads[t].pc = "idle"
    /\ threads[t].served < MaxRequests
    /\ \/ threads' = With(t, [threads[t] EXCEPT
                                !.pc = "read_cache", !.route = "/config",
                                !.served = @ + 1])
       \/ \E event \in RaceEvents :
             threads' = With(t, [threads[t] EXCEPT
                                    !.pc = "handle", !.route = "/webhook",
                                    !.event = event, !.served = @ + 1])
    /\ UNCHANGED <<settings, user_state, target_table_id, now, request, last>>

\* the trigger branch: the template is sent and the session stored, stamped
\* with the time of day; the next request finds a later time
SetState(t) ==
    LET r == threads[t]
    IN  /\ r.pc = "handle"
        /\ IsTrigger(r.event.chat_type, strip(r.event.text))
        /\ user_state' = set_user_state(r.event.user_id,
                                        WaitingInfo(r.event.chat_id), SessionTTL)
        /\ now' = now + 1
        /\ threads' = With(t, [r EXCEPT !.pc = "done", !.status = 200])
        /\ UNCHANGED <<settings, target_table_id, request, last>>

\* the reply branch up to the table lookup: the session is read, the text
\* parsed; a text without fields or without contact is answered at once
GetState(t) ==
    LET r == threads[t]
        text == strip(r.event.text)
        found == get_user_state(r.event.user_id)
        customer_info == parse_customer_info(text)
        phone == DictGet(customer_info, "phone", NoneText)
        wechat == DictGet(customer_info, "wechat", NoneText)
    IN  /\ r.pc = "handle"
        /\ ~IsTrigger(r.event.chat_type, text)
        /\ threads' =
              With(t, IF /\ r.event.chat_type = "p2p" /\ found # <<>>
                         /\ found[1].step = "waiting_info"
                         /\ DOMAIN customer_info # {}
                         /\ ~MissingContact(phone, wechat)
                      THEN [r EXCEPT !.pc = "read_cache", !.state = found]
                      ELSE [r EXCEPT !.pc = "done", !.status = 200])
        /\ UNCHANGED <<settings, user_state, target_table_id, now, request, last>>

\* get_target_table_id, the cache read
ReadCache(t) ==
    LET r == threads[t]
    IN  /\ r.pc = "read_cache"
        /\ threads' =
              With(t, IF CacheHit
                      THEN Returning([r EXCEPT
                                         !.table_id = target_table_id[1].value])
                      ELSE [r EXCEPT !.pc = "list"])
        /\ UNCHANGED <<settings, user_state, target_table_id, now, request, last>>

\* get_target_table_id, the list-tables call: an exception leaves the handler,
\* which answers 500
ListTables(t) ==
    LET r == threads[t]
    IN  /\ r.pc = "list"
        /\ \E resp \in ListResponses :
              LET found == ListCall(resp).named
              IN  threads' =
                     With(t, IF found = <<>>
                             THEN [r EXCEPT !.pc = "done", !.status = 500]
                             ELSE [r EXCEPT !.pc = "write_cache",
                                            !.table_id = found[1],
                                            !.missed = TRUE])
        /\ UNCHANGED <<settings, user_state, target_table_id, now, request, last>>

\* get_target_table_id, the cache write and the return
WriteCache(t) ==
    LET r == threads[t]
    IN  /\ r.pc = "write_cache"
        /\ target_table_id' = setex_target_table_id(r.table_id)
        /\ threads' = With(t, Returning(r))
        /\ UNCHANGED <<settings, user_state, now, request, last>>

\* check_duplicate_record; a match is reported to the chat
Search(t) ==
    LET r == threads[t]
        customer_info == parse_customer_info(strip(r.event.text))
        phone == DictGet(customer_info, "phone", NoneText)
        wechat == DictGet(customer_info, "wechat", NoneText)
    IN  /\ r.pc = "search"
        /\ \E qresp \in SearchResponses :
              LET d == check_duplicate_record(APP_TOKEN, r.table_id, phone,
                                              wechat, qresp)
              IN  threads' = With(t, [r EXCEPT !.pc = IF d.is_duplicate
                                                      THEN "delete" ELSE "create"])
        /\ UNCHANGED <<settings, user_state, target_table_id, now, request, last>>

\* create_customer_record and the report to the chat; the thread notes the
\* session it issued the create-record call for
Create(t) ==
    LET r == threads[t]
        customer_info == parse_customer_info(strip(r.event.text))
    IN  /\ r.pc = "create"
        /\ \E fresp \in FieldResponses, cresp \in CreateResponses :
              LET w == create_customer_record(APP_TOKEN, r.table_id,
                                              FieldsData(customer_info),
                                              fresp, cresp)
              IN  threads' =
                     With(t, [r EXCEPT
                                 !.pc = "delete",
                                 !.created = @ \o [i \in 1..Len(w.created) |->
                                                      r.state[1].created_at]])
        /\ UNCHANGED <<settings, user_state, target_table_id, now, request, last>>

\* delete_user_state, the last statement of both branches
DeleteState(t) ==
    LET r == threads[t]
    IN  /\ r.pc = "delete"
        /\ user_state' = delete_user_state(r.event.user_id)
        /\ threads' = With(t, [r EXCEPT !.pc = "done", !.status = 200])
        /\ UNCHANGED <<settings, target_table_id, now, request, last>>

\* the answer leaves the server and the thread is free again
Reply(t) ==
    LET r == threads[t]
    IN  /\ r.pc = "done"
        /\ threads' = With(t, [IdleThread EXCEPT !.served = r.served,
                                                 !.created = r.created])
        /\ UNCHANGED <<settings, user_state, target_table_id, now, request, last>>

InitRace ==
    /\ redis_client \in BOOLEAN
    /\ VERIFICATION_TOKEN = ""
    /\ BASE_URL = Url(FALSE, "app", None, None)
    /\ tenant_access_token = <<>>
    /\ bitable_params = <<>>
    /\ user_state = [k \in {} |-> 0]
    /\ target_table_id = <<>>
    /\ now = 0
    /\ request = <<>>
    /\ last = NoExchange
    /\ threads = NoThreads

Step(t) ==
    \/ Accept(t) \/ SetState(t) \/ GetState(t) \/ ReadCache(t) \/ ListTables(t)
    \/ WriteCache(t) \/ Search(t) \/ Create(t) \/ DeleteState(t) \/ Reply(t)

NextRace == \E t \in ThreadIds : Step(t)

SpecRace == InitRace /\ [][NextRace]_vars

\* ===================================================================== claims
\* Readings shared by the claims below.  A message "is sent" when the
\* create-message call is issued (last.sent), whatever the chat API answers.
\* A sender "has a session" when the key of its user id is in the store.
Handled == last.route = "/webhook" /\ last.dispatched
Event == last.body.event
Sender == Event.user_id
LastText == strip(Event.text)
Mentioned == Event.chat_type = "group" /\ Contains(LastText, Mention)
HadSession == Sender \in DOMAIN last.before.sessions
SessionBefore == last.before.sessions[Sender].value
Parsed == parse_customer_info(LastText)
SentExactly(chat_id, content) ==
    /\ Len(last.sent) = 1
    /\ last.sent[1].receive_id = chat_id
    /\ last.sent[1].content = content
SessionsUnchanged == user_state = last.before.sessions
NoTableCalls ==
    /\ last.listed = <<>> /\ last.searched = <<>> /\ last.checked = <<>>
    /\ last.wrote = <<>> /\ last.written = <<>> /\ last.created = <<>>
    /\ last.fetched = <<>>
AwaitedReply == Handled /\ Event.chat_type = "p2p" /\ HadSession
WaitingFor(chat_id) ==
    /\ Sender \in DOMAIN user_state
    /\ user_state[Sender].value.step = "waiting_info"
    /\ user_state[Sender].value.chat_id = chat_id
    /\ user_state[Sender].expires_at = now + 300

C2_DuplicateEndsSession ==
    (AwaitedReply /\ Len(last.checked) = 1 /\ last.checked[1].is_duplicate)
        => /\ Sender \notin DOMAIN user_state
           /\ SentExactly(SessionBefore.chat_id,
                          DuplicateOf(last.checked[1].record_id))
           /\ last.checked[1].record_id # None
           /\ last.wrote = <<>> /\ last.written = <<>> /\ last.created = <<>>

C2_Witness ==
    /\ AwaitedReply /\ Len(last.checked) = 1 /\ last.checked[1].is_duplicate
    /\ Truthy(DictGet(Parsed, "phone", NoneText))
    /\ Sender \notin DOMAIN user_state

\* C3: when the duplicate checker reported no match for an awaited reply, the
\* record writer was invoked exactly once with channel, source, phone and
\* wechat as parsed, exactly one message went to the session's chat (success
\* if the write succeeded, failure otherwise) and the session is gone in both
\* cases.
C3_NoDuplicateWritesOnce ==
    (AwaitedReply /\ Len(last.checked) = 1 /\ ~last.checked[1].is_duplicate)
        => /\ Len(last.wrote) = 1 /\ Len(last.written) = 1
           /\ Len(last.created) = 1
           /\ DOMAIN last.wrote[1] = FieldNames
           /\ last.wrote[1]["channel"] = DictGet(Parsed, "channel", EmptyText)
           /\ last.wrote[1]["source"] = DictGet(Parsed, "source", EmptyText)
           /\ last.wrote[1]["phone"] = DictGet(Parsed, "phone", NoneText)
           /\ last.wrote[1]["wechat"] = DictGet(Parsed, "wechat", NoneText)
           /\ SentExactly(SessionBefore.chat_id,
                          IF last.written[1] THEN Recorded ELSE RecordFailed)
           /\ Sender \notin DOMAIN user_state

\* the write failed and the session is gone all the same
C3_Witness ==
    /\ AwaitedReply /\ Len(last.checked) = 1 /\ ~last.checked[1].is_duplicate
    /\ last.written = <<FALSE>>
    /\ SentExactly(SessionBefore.chat_id, RecordFailed)
    /\ Sender \notin DOMAIN user_state

\* the reply carries neither a phone nor a wechat value
NoContact ==
    /\ ~Truthy(DictGet(Parsed, "phone", NoneText))
    /\ ~Truthy(DictGet(Parsed, "wechat", NoneText))

\* C4 as stated: for any awaited reply with neither a phone nor a wechat
\* value the session is kept and exactly one validation-failure message is
\* sent.
C4_NoContactIsValidationFailure ==
    (AwaitedReply /\ NoContact)
        => /\ Sender \in DOMAIN user_state
           /\ SentExactly(SessionBefore.chat_id, ValidationFailed)

\* C4 amended: for an awaited reply from which some field is extracted but
\* neither a phone nor a wechat, the sessions are left as they were and
\* exactly one validation-failure message is sent, and no table call is made.
C4_ParsedWithoutContactIsValidationFailure ==
    (AwaitedReply /\ NoContact /\ DOMAIN Parsed # {})
        => /\ SessionsUnchanged
           /\ Sender \in DOMAIN user_state
           /\ SentExactly(SessionBefore.chat_id, ValidationFailed)
           /\ NoTableCalls

C4_Witness ==
    /\ AwaitedReply /\ NoContact /\ DOMAIN Parsed # {}
    /\ SentExactly(SessionBefore.chat_id, ValidationFailed)
    /\ Sender \in DOMAIN user_state

\* C5: for an awaited reply from which nothing is extracted, exactly one
\* format-not-recognized message is sent, no duplicate check and no record
\* creation happen, and the session is left unchanged.
C5_FormatErrorKeepsSession ==
    (AwaitedReply /\ DOMAIN Parsed = {})
        => /\ SentExactly(SessionBefore.chat_id, FormatError)
           /\ NoTableCalls
           /\ SessionsUnchanged
           /\ user_state[Sender].value.step = "waiting_info"

C5_Witness ==
    /\ AwaitedReply /\ DOMAIN Parsed = {}
    /\ SentExactly(SessionBefore.chat_id, FormatError)
    /\ user_state[Sender] = last.before.sessions[Sender]

\* C6: a handled message that is no trigger, from a sender without a session,
\* and any group message that does not mention the bot, is ignored: nothing
\* is sent, no session is created or changed, no table call is made and the
\* answer is 200.
Ignored ==
    /\ last.sent = <<>>
    /\ SessionsUnchanged
    /\ NoTableCalls
    /\ target_table_id = last.before.cache
    /\ last.status = 200
C6_OtherMessagesIgnored ==
    /\ (Handled /\ ~Mentioned /\ ~HadSession) => Ignored
    /\ (Handled /\ Event.chat_type = "group" /\ ~Contains(LastText, Mention))
          => Ignored

\* a filled-in reply from a sender nobody asked
C6_Witness ==
    /\ Handled /\ Event.chat_type = "p2p" /\ ~HadSession
    /\ Truthy(DictGet(Parsed, "phone", NoneText))
    /\ last.before.sessions # <<>>
    /\ Ignored
\* C7: every create-record call carries a non-empty phone or a non-empty
\* wechat.
HasContact(fields) ==
    \/ "phone" \in DOMAIN fields /\ Truthy(fields["phone"])
    \/ "wechat" \in DOMAIN fields /\ Truthy(fields["wechat"])
C7_CreatedRecordsHaveContact ==
    \A i \in 1..Len(last.created) : HasContact(last.created[i].fields)

\* a record created from a reply giving only a wechat
C7_Witness ==
    /\ Len(last.created) = 1
    /\ "phone" \notin DOMAIN last.created[1].fields
    /\ HasContact(last.created[1].fields)

\* a POST whose body is an object of type url_verification
IsChallenge ==
    /\ last.route = "/webhook" /\ last.body.json = "object"
    /\ last.body.type = "url_verification"
EchoesChallenge ==
    /\ last.status = 200
    /\ last.reply = [key |-> "challenge", val |-> last.body.challenge]

\* C8 as stated: a url_verification POST is answered 200 with its challenge
\* whatever verification token is configured.
C8_ChallengeAlwaysEchoed == IsChallenge => EchoesChallenge

\* C8 amended: a url_verification POST is answered 200 with its challenge
\* when no verification token is configured or the header carries it; it is
\* answered 403 when a token is configured and the header differs.
C8_ChallengeEchoedWhenTokenAccepted ==
    IsChallenge =>
        IF VERIFICATION_TOKEN = "" \/ last.hdr = VERIFICATION_TOKEN
        THEN EchoesChallenge
        ELSE last.status = 403

C8_Witness ==
    /\ IsChallenge /\ VERIFICATION_TOKEN = "tok" /\ last.hdr = "tok"
    /\ last.body.challenge = "abc" /\ EchoesChallenge

\* the request left nothing behind: no session or cache change, no message,
\* no table call, and the event never reached the state machine
NotDispatched ==
    /\ ~last.dispatched
    /\ SessionsUnchanged
    /\ target_table_id = last.before.cache
    /\ last.sent = <<>>
    /\ NoTableCalls
Mismatch ==
    /\ last.route = "/webhook"
    /\ VERIFICATION_TOKEN # "" /\ last.hdr # VERIFICATION_TOKEN

\* C9 as stated: with a token configured and a differing header the answer
\* is 403 and the event is not dispatched; with no token configured the
\* header is not checked.
C9_MismatchIs403 ==
    /\ Mismatch => (last.status = 403 /\ NotDispatched)
    /\ (last.route = "/webhook" /\ VERIFICATION_TOKEN = "") => last.status # 403

\* C9 amended: with a token configured and a differing header the event is
\* not dispatched and nothing changes; the answer is 403 when the body parses
\* as JSON and 500 when it does not (the body is parsed before the token is
\* looked at).  With no token configured the header is not checked.
C9_MismatchNeverDispatched ==
    /\ Mismatch =>
          /\ NotDispatched
          /\ last.status = IF last.body.json = "malformed" THEN 500 ELSE 403
    /\ (last.route = "/webhook" /\ VERIFICATION_TOKEN = "") => last.status # 403

\* a trigger from a client without the token, rejected
C9_Witness ==
    /\ Mismatch /\ last.status = 403 /\ NotDispatched
    /\ last.body.event.type = "im.message.receive_v1"
    /\ last.body.event.chat_type = "group"
    /\ Contains(last.body.event.text, Mention)

StoreKeys == UserIds \cup {None}
ClockTimes == {k * TickSeconds : k \in 0..((MaxTime \div TickSeconds) + 4)}
HasSession(u, t) ==
    u \in DOMAIN user_state /\ user_state[u].value.created_at = t
C11_InTime ==
    \A u \in DOMAIN user_state :
        /\ user_state[u].expires_at = user_state[u].value.created_at + 300
        /\ now < user_state[u].expires_at
        /\ user_state[u].value.created_at \in ClockTimes
C11_NoRenewal ==
    \A u \in DOMAIN user_state \cap DOMAIN user_state' :
        user_state'[u] # user_state[u]
            => /\ last' # last
               /\ Handled' /\ Mentioned' /\ Sender' = u
C11_LateReplyIgnored ==
    (last' # last /\ Handled' /\ Event'.chat_type = "p2p" /\ ~HadSession')
        => Ignored'
C11_SessionsExpire ==
    /\ []C11_InTime
    /\ [][C11_NoRenewal /\ C11_LateReplyIgnored]_vars
    /\ \A u \in StoreKeys : \A t \in ClockTimes :
          HasSession(u, t) ~> ~HasSession(u, t)

\* a re-prompt answered 200 seconds after the trigger, the session as it was
C11_Witness ==
    /\ AwaitedReply /\ SentExactly(SessionBefore.chat_id, FormatError)
    /\ now = SessionBefore.created_at + 200
    /\ user_state[Sender].expires_at = now + 100
\* C12: when the record search of an awaited reply was answered with a
\* non-success status or raised, the checker reported (false, None), the
\* record writer ran once, the only message sent is the writer's success or
\* failure message, and the session is gone.
SearchFailed ==
    /\ AwaitedReply /\ Len(last.searched) = 1
    /\ last.searched[1].answer \in {"fail", "exc"}
C12_SearchFailsOpen ==
    SearchFailed
        => /\ last.checked = <<[is_duplicate |-> FALSE, record_id |-> None]>>
           /\ Len(last.wrote) = 1 /\ Len(last.created) = 1
           /\ Len(last.written) = 1
           /\ SentExactly(SessionBefore.chat_id,
                          IF last.written[1] THEN Recorded ELSE RecordFailed)
           /\ Sender \notin DOMAIN user_state
           /\ last.status = 200

\* the search raised and the record was written all the same
C12_Witness ==
    /\ SearchFailed /\ last.searched[1].answer = "exc"
    /\ last.written = <<TRUE>>
    /\ SentExactly(SessionBefore.chat_id, Recorded)
    /\ Sender \notin DOMAIN user_state
\* C13: when the table id could not be determined for an awaited reply that
\* carries a phone or a wechat (the list-tables call failed, or listed no
\* table of the target name), one message went to the session's chat.
LocatorFailed ==
    /\ AwaitedReply /\ ~NoContact
    /\ Len(last.listed) = 1 /\ last.listed[1].named = <<>>
C13_LocatorFailureReported ==
    LocatorFailed
        => /\ Len(last.sent) = 1
           /\ last.sent[1].receive_id = SessionBefore.chat_id

\* C14: a handled message event in which an outbound call failed (send,
\* list-tables, list-fields, search or create, by status or by exception) is
\* not answered 500.
Failed(calls) == \E i \in 1..Len(calls) : calls[i].answer \in {"fail", "exc"}
SomeCallFailed ==
    \/ \E i \in 1..Len(last.sent) : ~last.sent[i].delivered
    \/ Failed(last.listed) \/ Failed(last.searched) \/ Failed(last.fetched)
    \/ \E i \in 1..Len(last.written) : ~last.written[i]
C14_CallFailuresNeverReach500 ==
    (Handled /\ SomeCallFailed) => last.status # 500
\* C15: in every create-record call, channel and source each carry the id
\* of an option of that text, if the schema the writer fetched has a
\* single-select field of that name with such an option, and the text as
\* given otherwise (no such option, no such field, fetch failed); and every
\* invocation of the writer issues its create-record call.
OptionIds(schema, f, v) ==
    UNION {{schema[i].property.options[j].id :
                j \in {k \in 1..Len(schema[i].property.options) :
                          schema[i].property.options[k].name = v}} :
           i \in {k \in 1..Len(schema) :
                     schema[k].field_name = f /\ schema[k].type = 3}}
C15_SelectsCarryOptionIds ==
    /\ Len(last.wrote) = Len(last.created)
    /\ Len(last.wrote) = Len(last.fetched)
    /\ \A n \in 1..Len(last.created) :
         \A f \in {"channel", "source"} \cap DOMAIN last.wrote[n] :
            LET ids == OptionIds(last.fetched[n].fields, f, last.wrote[n][f])
            IN  /\ f \in DOMAIN last.created[n].fields
                /\ IF ids # {}
                   THEN last.created[n].fields[f] \in ids
                   ELSE last.created[n].fields[f] = last.wrote[n][f]

\* channel "a" written as opt_3; source "a", no single-select, written as is
C15_Witness ==
    /\ Len(last.created) = 1 /\ last.fetched[1].answer = "ok"
    /\ last.wrote[1]["channel"] = <<"a">> /\ last.wrote[1]["source"] = <<"a">>
    /\ last.created[1].fields["channel"] = <<"opt_3">>
    /\ last.created[1].fields["source"] = <<"a">>
\* C16: for the text of every awaited reply and each of the four labels, the
\* value extracted for the label is the trimmed remainder of the line on
\* which the label stands, with nothing of a following line in it; and a
\* text whose only label is the phone label yields the phone alone.
FirstAt(label, text) == Min({i \in 1..Len(text) : text[i] = label})
LineRemainder(label, text) ==
    strip(UntilNewline(SubSeq(text, FirstAt(label, text) + 1, Len(text))))
LabelsIn(text) == {f \in FieldNames : Contains(text, LabelOf(f))}
C16_ValuesStayOnTheirLine ==
    AwaitedReply
        => /\ \A f \in DOMAIN Parsed :
                Parsed[f] = LineRemainder(LabelOf(f), LastText)
           /\ (/\ LabelsIn(LastText) = {"phone"}
               /\ LineRemainder(LabelOf("phone"), LastText) # EmptyText)
                 => DOMAIN Parsed = {"phone"}
\* C17: when the configured table URL carries a table parameter, no
\* list-tables call is made and the duplicate search, the record creation
\* and the table id /config reports all use the parameter's value.
C17_TableParameterUsed ==
    BASE_URL.table # None
        => /\ last.listed = <<>>
           /\ \A i \in 1..Len(last.searched) :
                 last.searched[i].table_id = BASE_URL.table
           /\ \A i \in 1..Len(last.created) :
                 last.created[i].table_id = BASE_URL.table
           /\ (last.route = "/config" /\ last.status = 200)
                 => last.reply.val = BASE_URL.table
\* C19: for a table URL in the wiki namespace, parse_base_url of the script
\* raises whenever the node lookup gave no node or a node without an object
\* token, and never returns the wiki path segment as app_token.
NoObjectToken ==
    LET answer == bitable_params[1].node
    IN  \/ answer.kind # "ok"
        \/ answer.items = <<>>
        \/ answer.items[1].obj_token \in {<<>>, <<None>>, <<"">>}
C19_UnresolvedWikiFails ==
    (bitable_params # <<>> /\ BASE_URL.wiki)
        => /\ NoObjectToken => bitable_params[1].raised
           /\ ~bitable_params[1].raised
                 => bitable_params[1].app_token # BASE_URL.segment
\* C18: a resolution of the table id that succeeds leaves the id in the
\* cache with an expiry 3600 seconds after it was stored, and a resolution
\* made while an id is cached returns that id without a list-tables call.
Resolved ==
    \/ last.route = "/config" /\ last.status = 200
    \/ last.route = "/webhook" /\ last.searched # <<>>
ResolvedId ==
    IF last.route = "/config" THEN last.reply.val ELSE last.searched[1].table_id
C18_Cached ==
    (last' # last /\ Resolved')
        => /\ target_table_id' # <<>>
           /\ target_table_id'[1].value = ResolvedId'
           /\ target_table_id'[1].expires_at =
                 (IF target_table_id # <<>> THEN target_table_id[1].expires_at
                  ELSE now' + 3600)
           /\ target_table_id # <<>>
                 => /\ last'.listed = <<>>
                    /\ ResolvedId' = target_table_id[1].value
C18_ResolutionIsCached == [][C18_Cached]_vars
\* C20: handling an event of one sender never creates, overwrites, acts on
\* or deletes the session of another.  Where every session is B's (A never
\* addresses the bot in a group), a message of A leaves every session as it
\* was and is ignored: nothing is sent and no table call is made.
C20_OtherSendersSessionUntouched ==
    (Handled /\ Event.sender = "A") => Ignored
\* C21: two resolutions of the table id that both found the cache empty, in
\* whatever order their steps fall, return the same table id, and from the
\* moment either has returned the cache holds that id (there is a cache only
\* with Redis connected).
HasReturned(t) == threads[t].table_id # None /\ threads[t].pc # "write_cache"
FirstTime(t) == threads[t].missed /\ HasReturned(t)
CacheHolds(table_id) ==
    target_table_id # <<>> /\ target_table_id[1].value = table_id
CreateCalls(session) ==
    Cardinality({<<t, i>> \in ThreadIds \X (1..MaxRequests) :
                    /\ i <= Len(threads[t].created)
                    /\ threads[t].created[i] = session})
C22_OneCreateCallPerSession ==
    \A t \in ThreadIds : \A i \in 1..Len(threads[t].created) :
        CreateCalls(threads[t].created[i]) <= 1
\* C23: when a sender who has a session addresses the bot in a group again,
\* the template is sent once more, to the chat of this message, and the
\* session is overwritten: it holds the chat of this message, is stamped with
\* the present time and expires 300 seconds from now; no key is added, so the
\* sender has one session, and the other sessions stay as they were.
C23_Overwritten ==
    (last' # last /\ Handled' /\ Mentioned' /\ HadSession')
        => /\ SentExactly(Event.chat_id, Template)'
           /\ DOMAIN user_state' = DOMAIN user_state
           /\ user_state'[Sender'] =
                 [value |-> [chat_id |-> Event'.chat_id, step |-> "waiting_info",
                             created_at |-> now],
                  expires_at |-> now + 300]
           /\ \A k \in DOMAIN user_state \ {Sender'} :
                 user_state'[k] = user_state[k]
C23_RetriggerOverwritesSession == [][C23_Overwritten]_vars

\* a second trigger, in the other group, 100 seconds or more after the first
C23_Witness ==
    /\ Handled /\ Mentioned /\ HadSession
    /\ SessionBefore.chat_id # Event.chat_id
    /\ SessionBefore.created_at < now
    /\ user_state[Sender].value.chat_id = Event.chat_id
    /\ user_state[Sender].expires_at = now + 300
\* C24: every field in the payload of a create-record call has a non-empty
\* value; a channel or a source is in the payload only if the reply supplied
\* it; and the payload always has an entry date.
C24_PayloadFieldsNonEmpty ==
    Handled =>
        \A i \in 1..Len(last.created) :
            LET fields == last.created[i].fields
            IN  /\ \A f \in DOMAIN fields : Truthy(fields[f])
                /\ \A f \in {"channel", "source"} \cap DOMAIN fields :
                      f \in DOMAIN Parsed
                /\ "entry_date" \in DOMAIN fields
====
